---- MODULE Spec2Model ----
(***************************************************************************)
(* Model of src/3d_visualizer.py: the scan visualizer that reads           *)
(* "pan,tilt,duration" lines from a serial port (live mode) or from a CSV  *)
(* file (replay mode), calibrates and filters each measurement, appends    *)
(* the resulting point to the cloud, and finally renders and saves it.     *)
(*                                                                         *)
(* Text is modelled as a sequence of one-character strings, so that        *)
(* strip / split / join / float are computed as Python computes them.      *)
(* A Python float is a tagged pair: <<"num", n>> or <<"nan", 0>>; a raised *)
(* ValueError is <<"err", 0>>.  Calibrated distances are kept in units of  *)
(* 1/10000 inch, so that 0.0069*d - 0.0751 is the exact integer 69*d-751   *)
(* for the integer durations of the input alphabet.                        *)
(***************************************************************************)
EXTENDS Integers, Sequences, FiniteSets, TLC

VARIABLES pc, CSV_FILE, file, ser, csv_lines, idx, line, points, ax,
          last_data_time, now, exit_reason, final, exit_status, silent,
          nLines, nParsed, nWarnings, nInRange, nTransforms, nRenders

vars == <<pc, CSV_FILE, file, ser, csv_lines, idx, line, points, ax,
          last_data_time, now, exit_reason, final, exit_status, silent,
          nLines, nParsed, nWarnings, nInRange, nTransforms, nRenders>>

------------------------------------------------------------------------------
(* Bounds of the model *)

\* the first MaxLive lines of a live session are arbitrary lines
MaxLive == 3
\* after them the rig sends in-range lines only, MaxSteady lines in all
MaxSteady == 11
\* the rig sends lines only while the clock is at most MaxTime seconds
MaxTime == 14

(* Program constants *)

Slope1e4 == 69
Intercept1e4 == -751
MaxRange == 30
IdleTimeout == 10
ReadTimeout == 5
SettleDelay == 5
RenderEvery == 10

------------------------------------------------------------------------------
(* Python text primitives *)

IsSpace(c) == c \in {" ", "\n"}

RECURSIVE LStrip(_)
LStrip(s) == IF s # <<>> /\ IsSpace(Head(s)) THEN LStrip(Tail(s)) ELSE s

RECURSIVE RStrip(_)
RStrip(s) ==
    IF s # <<>> /\ IsSpace(s[Len(s)]) THEN RStrip(SubSeq(s, 1, Len(s) - 1)) ELSE s

\* str.strip()
Strip(s) == RStrip(LStrip(s))

\* index of the first comma of s, or 0
RECURSIVE FirstComma(_, _)
FirstComma(s, i) ==
    IF i > Len(s) THEN 0 ELSE IF s[i] = "," THEN i ELSE FirstComma(s, i + 1)

\* str.split(','): "" splits into one empty field
RECURSIVE Split(_)
Split(s) ==
    LET k == FirstComma(s, 1)
    IN  IF k = 0 THEN <<s>>
        ELSE <<SubSeq(s, 1, k - 1)>> \o Split(SubSeq(s, k + 1, Len(s)))

\* ','.join(parts)
RECURSIVE Join(_)
Join(parts) ==
    IF parts = <<>> THEN <<>>
    ELSE IF Len(parts) = 1 THEN parts[1]
    ELSE parts[1] \o <<",">> \o Join(Tail(parts))

DigitOf ==
    "0" :> 0 @@ "1" :> 1 @@ "2" :> 2 @@ "3" :> 3 @@ "4" :> 4 @@
    "5" :> 5 @@ "6" :> 6 @@ "7" :> 7 @@ "8" :> 8 @@ "9" :> 9

IsDigits(s) == s # <<>> /\ \A i \in 1..Len(s) : s[i] \in DOMAIN DigitOf

RECURSIVE DigitsVal(_)
DigitsVal(s) ==
    IF s = <<>> THEN 0
    ELSE 10 * DigitsVal(SubSeq(s, 1, Len(s) - 1)) + DigitOf[s[Len(s)]]

NaN == <<"nan", 0>>
ValueError == <<"err", 0>>
Num(n) == <<"num", n>>
IsNum(v) == v[1] = "num"

\* float(s) for the literals of the input alphabet: surrounding whitespace
\* is ignored, an optionally signed run of digits is a number, "nan" is
\* not-a-number, anything else (also the empty string) raises ValueError.
Float(s) ==
    LET t == Strip(s)
    IN  IF t = <<"n", "a", "n">> THEN NaN
        ELSE IF IsDigits(t) THEN Num(DigitsVal(t))
        ELSE IF t # <<>> /\ t[1] = "-" /\ IsDigits(Tail(t)) THEN Num(0 - DigitsVal(Tail(t)))
        ELSE ValueError

------------------------------------------------------------------------------
(* Calibration, range filter, kinematic transform *)

\* get_calibrated_distance_inches, in 1/10000 inch
get_calibrated_distance_inches(duration) ==
    IF duration = Num(0) THEN Num(0)
    ELSE IF IsNum(duration) THEN Num(Slope1e4 * duration[2] + Intercept1e4)
    ELSE NaN

\* the test "r <= 0 or r > 30": every comparison with NaN is false
OutOfRange(r) == IsNum(r) /\ (r[2] <= 0 \/ r[2] > MaxRange * 10000)

\* The Cartesian point is a trigonometric function of (pan_deg - 90,
\* tilt_deg, r); the cloud keeps these three determining quantities.
ToPoint(pan_deg, tilt_deg, r) ==
    <<IF IsNum(pan_deg) THEN Num(pan_deg[2] - 90) ELSE NaN, tilt_deg, r>>

RenderDueBeforeAppend(n) == (n - 1) % RenderEvery = 0

\* every 10th appended point is followed by an incremental render
RenderDue(n) == n % RenderEvery = 0

ParseLineTruncating(l) ==
    LET parts == Split(l)
    IN  IF Len(parts) < 3 THEN ValueError
        ELSE IF \E i \in 1..3 : Float(parts[i]) = ValueError THEN ValueError
        ELSE <<Float(parts[1]), Float(parts[2]), Float(parts[3])>>

\* The body of the inner try: unpack line.split(',') into exactly three
\* names, convert each with float(), calibrate, filter, transform.
\* kind "warn": ValueError caught, warning printed; "skip": continue;
\* "append": the point is appended.
ParseLine(l) ==
    LET parts == Split(l)
    IN  IF Len(parts) # 3 THEN ValueError
        ELSE IF \E i \in 1..3 : Float(parts[i]) = ValueError THEN ValueError
        ELSE <<Float(parts[1]), Float(parts[2]), Float(parts[3])>>

ProcessSilent(l) ==
    LET m == ParseLine(l)
    IN  IF m = ValueError THEN [kind |-> "skip"]
        ELSE LET r == get_calibrated_distance_inches(m[3])
             IN  IF OutOfRange(r) THEN [kind |-> "skip"]
                 ELSE [kind |-> "append", point |-> ToPoint(m[1], m[2], r)]

Process(l) ==
    LET m == ParseLine(l)
    IN  IF m = ValueError THEN [kind |-> "warn"]
        ELSE LET r == get_calibrated_distance_inches(m[3])
             IN  IF OutOfRange(r) THEN [kind |-> "skip"]
                 ELSE [kind |-> "append", point |-> ToPoint(m[1], m[2], r)]

------------------------------------------------------------------------------
(* CSV row normalisation: a row is the list of cells csv.reader yields *)

RECURSIVE StripAll(_)
StripAll(cells) ==
    IF cells = <<>> THEN <<>> ELSE <<Strip(Head(cells))>> \o StripAll(Tail(cells))

RECURSIVE DropEmpty(_)
DropEmpty(cells) ==
    IF cells = <<>> THEN <<>>
    ELSE IF Head(cells) = <<>> THEN DropEmpty(Tail(cells))
    ELSE <<Head(cells)>> \o DropEmpty(Tail(cells))

\* the parts of one non-blank row
RowParts(row) ==
    IF Len(row) = 1 /\ FirstComma(row[1], 1) # 0
    THEN StripAll(Split(row[1]))
    ELSE DropEmpty(StripAll(row))

\* the lines appended to csv_lines for one row: none or one
NormalizeRow(row) ==
    IF row = <<>> THEN <<>>
    ELSE IF Len(RowParts(row)) < 3 THEN <<>>
    ELSE <<Join(SubSeq(RowParts(row), 1, 3))>>

RECURSIVE LoadCsv(_)
LoadCsv(rows) ==
    IF rows = <<>> THEN <<>> ELSE NormalizeRow(Head(rows)) \o LoadCsv(Tail(rows))

------------------------------------------------------------------------------
(* Input alphabet: field literals, serial lines, replay files *)

D0 == <<"0">>
D5 == <<"5">>
D7 == <<"7">>
D45 == <<"4", "5">>
D90 == <<"9", "0">>
D145 == <<"1", "4", "5">>
D200 == <<"2", "0", "0">>
D5000 == <<"5", "0", "0", "0">>
DNan == <<"n", "a", "n">>
DNot == <<"n", "o", "t">>
DA == <<"a">>
DNumber == <<"n", "u", "m", "b", "e", "r">>
DPadded == <<" ", "1", "4", "5", " ">>

\* what ser.readline() returns for a transmitted line: the text and "\n"
Sent(fields) == Join(fields) \o <<"\n">>

\* the lines the rig can send
LiveLines ==
    { Sent(<<D90, D0, D145>>),        \* in range
      Sent(<<D90, D0, D0>>),          \* no echo
      Sent(<<D90, D0, D5000>>),       \* too far
      Sent(<<D90, D0>>),              \* two fields
      Sent(<<D90, D0, D145, D7>>),    \* four fields
      Sent(<<D90, DA, D145>>),        \* non-numeric field
      Sent(<<D90, D0, DNan>>),        \* not-a-number duration
      Sent(<<>>) }                    \* blank line

\* seconds ser.readline() blocks before a line is complete
LineDelays == {0, 4}

\* replay files, as the rows csv.reader yields
FileExample == << <<D90, D0, D145>>, <<DNot, DA, DNumber>>, <<D0, D45, D200>> >>
FileQuoted == << <<Join(<<D90, D0, D145>>)>>, <<Join(<<D90, D0, DPadded>>)>>,
                 <<D90, D0, DPadded>> >>
FileShort == << <<>>, <<D90, D0>>, <<D90>>, <<Join(<<D90, D0>>)>>, <<D90, D0, D145>> >>
FileExtra == << <<D90, D0, D145, D7>> >>
FileGapJoined == << <<Join(<<D90, <<>>, D0, D145>>)>>, <<Join(<<D90, <<>>, D145>>)>> >>
FileGapSplit == << <<D90, <<>>, D0, D145>>, <<D90, <<>>, D145>> >>
FileFiltered == << <<D90, D0, D0>>, <<D90, D0, D5>>, <<D90, D0, D5000>>, <<D90, D45, D200>> >>
FileNan == << <<D90, D0, DNan>> >>
LongRows == 21
FileLong == [i \in 1..LongRows |-> <<D90, D0, D145>>]
FileNone == <<>>

Files == {FileExample, FileQuoted, FileShort, FileExtra, FileGapJoined,
          FileGapSplit, FileFiltered, FileNan, FileLong, FileNone}

------------------------------------------------------------------------------
(* Helpers of the session *)

\* exit() without an argument ends the process with status 0
ExitNoArg == 0
\* an exception that reaches the top level ends the process with status 1
ExitUncaught == 1
ResetsTimerWhenParsed(l) == l # <<>> /\ ParseLine(l) # ValueError

\* "if line:" in the live loop restarts the idle timer
ResetsTimer(l) == l # <<>>

IdleNeverExpires(t, last) == FALSE

\* time.time() - last_data_time > 10.0
IdleExpired(t, last) == t - last > IdleTimeout

FinalPlotAlways(pts) == TRUE

\* "if points:" in the finally block
FinalPlotDue(pts) == pts # <<>>

\* a line of exactly three comma-separated fields, each a number
WellFormed(l) ==
    /\ Len(Split(l)) = 3
    /\ \A i \in 1..3 : Float(Split(l)[i]) # ValueError

\* a calibrated distance d with 0 < d <= 30
InRange(r) == IsNum(r) /\ 0 < r[2] /\ r[2] <= 300000

\* a processed measurement whose calibrated distance is in range; counted
\* by nInRange, which the program does not keep
ValidMeasurement(l) ==
    /\ WellFormed(l)
    /\ InRange(get_calibrated_distance_inches(Float(Split(l)[3])))

NoFinal == [rendered |-> FALSE, save |-> "none", shown |-> FALSE]

\* the rig can send raw now: it has not fallen silent and its budget of
\* lines is not spent
CanSend(raw) ==
    /\ ~silent
    /\ \/ nLines < MaxLive
       \/ nLines < MaxSteady /\ raw = Sent(<<D90, D0, D145>>)

\* the clock never passes this value while the loop runs
TimeCap == MaxTime + IdleTimeout + ReadTimeout

------------------------------------------------------------------------------
(* The session *)

Init ==
    /\ pc = "start"
    /\ CSV_FILE = FALSE
    /\ file = <<>>
    /\ ser = "None"
    /\ csv_lines = <<>>
    /\ idx = 0
    /\ line = <<>>
    /\ points = <<>>
    /\ ax = <<>>
    /\ last_data_time = 0
    /\ now = 0
    /\ exit_reason = "none"
    /\ final = NoFinal
    /\ exit_status = -1
    /\ silent = FALSE
    /\ nLines = 0
    /\ nParsed = 0
    /\ nWarnings = 0
    /\ nInRange = 0
    /\ nTransforms = 0
    /\ nRenders = 0

\* lines 35-44: open the serial port and wait for the board to reset
StartLive(outcome) ==
    /\ pc = "start"
    /\ CSV_FILE' = FALSE
    /\ CASE outcome = "SerialException" ->
              /\ pc' = "done"
              /\ exit_reason' = "startup"
              /\ exit_status' = ExitNoArg
              /\ UNCHANGED <<ser, now>>
         [] outcome = "interrupt" ->
              /\ pc' = "done"
              /\ exit_reason' = "uncaught"
              /\ exit_status' = ExitUncaught
              /\ ser' = "open"
              /\ UNCHANGED now
         [] OTHER ->
              /\ pc' = "setup"
              /\ ser' = "open"
              /\ now' = now + SettleDelay
              /\ UNCHANGED <<exit_reason, exit_status>>
    /\ UNCHANGED <<file, csv_lines, idx, line, points, ax, last_data_time,
                   final, silent, nLines, nParsed, nWarnings, nInRange,
                   nTransforms, nRenders>>

\* lines 45-49: the replay file must exist
StartReplay(f, exists) ==
    /\ pc = "start"
    /\ CSV_FILE' = TRUE
    /\ IF exists
       THEN /\ pc' = "setup"
            /\ file' = f
            /\ UNCHANGED <<exit_reason, exit_status>>
       ELSE /\ pc' = "done"
            /\ exit_reason' = "startup"
            /\ exit_status' = ExitNoArg
            /\ UNCHANGED file
    /\ UNCHANGED <<ser, csv_lines, idx, line, points, ax, last_data_time, now,
                   final, silent, nLines, nParsed, nWarnings, nInRange,
                   nTransforms, nRenders>>

\* lines 51-83: create the figure, load the CSV lines, start the idle timer
Setup(ok) ==
    /\ pc = "setup"
    /\ IF ok
       THEN /\ pc' = "loop"
            /\ csv_lines' = IF CSV_FILE THEN LoadCsv(file) ELSE <<>>
            /\ last_data_time' = now
            /\ UNCHANGED <<exit_reason, exit_status>>
       ELSE /\ pc' = "done"
            /\ exit_reason' = "uncaught"
            /\ exit_status' = ExitUncaught
            /\ UNCHANGED <<csv_lines, last_data_time>>
    /\ UNCHANGED <<CSV_FILE, file, ser, idx, line, points, ax, now, final,
                   silent, nLines, nParsed, nWarnings, nInRange, nTransforms,
                   nRenders>>

\* the effect of the inner try block on the cloud, the axes and the counters
Consume(l) ==
    LET out == Process(l)
    IN  /\ nParsed' = IF out.kind = "warn" THEN nParsed ELSE nParsed + 1
        /\ nWarnings' = IF out.kind = "warn" THEN nWarnings + 1 ELSE nWarnings
        /\ nInRange' = IF ValidMeasurement(l) THEN nInRange + 1 ELSE nInRange
        /\ IF out.kind = "append"
           THEN /\ points' = Append(points, out.point)
                /\ nTransforms' = nTransforms + 1
                /\ IF RenderDue(Len(points) + 1)
                   THEN ax' = Append(points, out.point) /\ nRenders' = nRenders + 1
                   ELSE UNCHANGED <<ax, nRenders>>
           ELSE UNCHANGED <<points, nTransforms, ax, nRenders>>

\* lines 88-137: one iteration of "for line in csv_lines"
ReplayIteration ==
    /\ pc = "loop"
    /\ CSV_FILE
    /\ idx < Len(csv_lines)
    /\ idx' = idx + 1
    /\ line' = csv_lines[idx + 1]
    /\ IF csv_lines[idx + 1] # <<>>
       THEN /\ nLines' = nLines + 1
            /\ Consume(csv_lines[idx + 1])
       ELSE UNCHANGED <<nLines, nParsed, nWarnings, nInRange, points,
                        nTransforms, ax, nRenders>>
    /\ UNCHANGED <<pc, CSV_FILE, file, ser, csv_lines, last_data_time, now,
                   exit_reason, final, exit_status, silent>>

\* line 138: the for loop is exhausted
ReplayExhausted ==
    /\ pc = "loop"
    /\ CSV_FILE
    /\ idx = Len(csv_lines)
    /\ pc' = "finally"
    /\ exit_reason' = "exhausted"
    /\ UNCHANGED <<CSV_FILE, file, ser, csv_lines, idx, line, points, ax,
                   last_data_time, now, final, exit_status, silent, nLines,
                   nParsed, nWarnings, nInRange, nTransforms, nRenders>>

\* lines 140-204: one iteration of the live loop; raw is what readline
\* returns after blocking d seconds (the empty text after the read timeout)
LiveIteration(raw, d) ==
    /\ pc = "loop"
    /\ ~CSV_FILE
    /\ IF raw = <<>>
       THEN d = ReadTimeout /\ now <= TimeCap
       ELSE CanSend(raw) /\ now + d <= MaxTime
    /\ now' = now + d
    /\ line' = Strip(raw)
    /\ IF Strip(raw) # <<>>
       THEN /\ nLines' = nLines + 1
            /\ Consume(Strip(raw))
       ELSE UNCHANGED <<nLines, nParsed, nWarnings, nInRange, points,
                        nTransforms, ax, nRenders>>
    /\ last_data_time' = IF ResetsTimer(Strip(raw)) THEN now + d ELSE last_data_time
    /\ IF /\ ~(Strip(raw) # <<>> /\ Process(Strip(raw)).kind = "skip")
          /\ IdleExpired(now', last_data_time')
       THEN pc' = "finally" /\ exit_reason' = "idle"
       ELSE UNCHANGED <<pc, exit_reason>>
    /\ UNCHANGED <<CSV_FILE, file, ser, csv_lines, idx, final, exit_status, silent>>

\* lines 89-90 and 140: the plot window was closed, the loop ends
WindowClosed ==
    /\ pc = "loop"
    /\ pc' = "finally"
    /\ exit_reason' = "window"
    /\ UNCHANGED <<CSV_FILE, file, ser, csv_lines, idx, line, points, ax,
                   last_data_time, now, final, exit_status, silent, nLines,
                   nParsed, nWarnings, nInRange, nTransforms, nRenders>>

\* lines 206-207: Ctrl-C inside the try block
KeyboardInterrupt ==
    /\ pc = "loop"
    /\ pc' = "finally"
    /\ exit_reason' = "interrupt"
    /\ UNCHANGED <<CSV_FILE, file, ser, csv_lines, idx, line, points, ax,
                   last_data_time, now, final, exit_status, silent, nLines,
                   nParsed, nWarnings, nInRange, nTransforms, nRenders>>

\* line 141: readline or decode raises; only KeyboardInterrupt is caught
ReadFailure ==
    /\ pc = "loop"
    /\ ~CSV_FILE
    /\ pc' = "finally"
    /\ exit_reason' = "exception"
    /\ UNCHANGED <<CSV_FILE, file, ser, csv_lines, idx, line, points, ax,
                   last_data_time, now, final, exit_status, silent, nLines,
                   nParsed, nWarnings, nInRange, nTransforms, nRenders>>

\* the rig finishes its sweep and stops transmitting
GoSilent ==
    /\ pc = "loop"
    /\ ~CSV_FILE
    /\ ~silent
    /\ silent' = TRUE
    /\ UNCHANGED <<pc, CSV_FILE, file, ser, csv_lines, idx, line, points, ax,
                   last_data_time, now, exit_reason, final, exit_status,
                   nLines, nParsed, nWarnings, nInRange, nTransforms, nRenders>>

\* lines 209-241: the finally block.  outcome: "ok"; "save_failed" (savefig
\* raises, caught); "render_raised" (the final plot raises before savefig);
\* "show_interrupted" (plt.show() is left by an exception or Ctrl-C)
Finally(outcome) ==
    /\ pc = "finally"
    /\ pc' = "done"
    /\ IF FinalPlotDue(points)
       THEN CASE outcome = "render_raised" ->
                   /\ final' = NoFinal
                   /\ exit_status' = ExitUncaught
                   /\ UNCHANGED <<ser, ax>>
              [] outcome = "show_interrupted" ->
                   /\ final' = [rendered |-> TRUE, save |-> "saved", shown |-> TRUE]
                   /\ ax' = points
                   /\ exit_status' = ExitUncaught
                   /\ UNCHANGED ser
              [] OTHER ->
                   /\ final' = [rendered |-> TRUE,
                                save |-> IF outcome = "save_failed" THEN "failed" ELSE "saved",
                                shown |-> TRUE]
                   /\ ax' = points
                   /\ ser' = IF ser = "open" THEN "closed" ELSE ser
                   /\ exit_status' = IF exit_reason = "exception" THEN ExitUncaught ELSE 0
       ELSE /\ outcome = "ok"
            /\ ser' = IF ser = "open" THEN "closed" ELSE ser
            /\ exit_status' = IF exit_reason = "exception" THEN ExitUncaught ELSE 0
            /\ UNCHANGED <<final, ax>>
    /\ UNCHANGED <<CSV_FILE, file, csv_lines, idx, line, points,
                   last_data_time, now, exit_reason, silent, nLines, nParsed,
                   nWarnings, nInRange, nTransforms, nRenders>>

LiveStep == \E raw \in LiveLines \cup {<<>>}, d \in LineDelays \cup {ReadTimeout} : LiveIteration(raw, d)

Next ==
    \/ \E o \in {"ok", "SerialException", "interrupt"} : StartLive(o)
    \/ \E f \in Files, e \in BOOLEAN : StartReplay(f, e)
    \/ \E ok \in BOOLEAN : Setup(ok)
    \/ ReplayIteration
    \/ ReplayExhausted
    \/ LiveStep
    \/ WindowClosed
    \/ KeyboardInterrupt
    \/ ReadFailure
    \/ GoSilent
    \/ \E o \in {"ok", "save_failed", "render_raised", "show_interrupted"} : Finally(o)

Spec == Init /\ [][Next]_vars

\* a blocked ser.readline() returns when the read timeout has elapsed
ReadTimesOut == LiveIteration(<<>>, ReadTimeout)

\* the interpreter keeps running the live loop: a read that receives
\* nothing does return, and the iteration it belongs to completes
FairSpec == Spec /\ WF_vars(ReadTimesOut)

------------------------------------------------------------------------------
(* Notions of the specification, stated independently of the code *)

\* the comma-separated fields of the text of a file row
RowFields(row) == Split(Join(row))

\* the fields of a row that are not blank
UsableFields(row) == DropEmpty(StripAll(RowFields(row)))

Cancelled == exit_reason \in {"interrupt", "window"}

------------------------------------------------------------------------------
(* Claims *)

\* C1: the cloud holds exactly one point per processed measurement whose
\* calibrated distance d satisfies 0 < d <= 30 and none for any other: its
\* length is the number of in-range measurements and every point is in range.
C1_CloudHoldsInRangeOnly ==
    /\ Len(points) = nInRange
    /\ \A i \in DOMAIN points : InRange(points[i][3])

\* C2 as stated: in the loop the idle timer is restarted only by a
\* successfully parsed line.
C2_TimerRestartedOnlyByParsedLine ==
    [][pc = "loop" /\ last_data_time' # last_data_time => nParsed' = nParsed + 1]_vars

\* C2 amended: in live mode the idle timer is restarted by every non-empty
\* line, parsed or not, and by nothing else; the loop is left on idle only
\* when more than 10 seconds have passed since the last non-empty line, and
\* it never starts a read with more than 10 seconds on the timer.
C2_TimerRestartedByAnyLine ==
    /\ [][pc = "loop" /\ ~CSV_FILE =>
            last_data_time' = IF nLines' > nLines THEN now' ELSE last_data_time]_vars
    /\ [][exit_reason # "idle" /\ exit_reason' = "idle" =>
            ~CSV_FILE /\ now' - last_data_time' > 10]_vars
    /\ [](pc = "loop" /\ ~CSV_FILE => now - last_data_time <= 10)

C2_Witness ==
    /\ ~CSV_FILE
    /\ exit_reason = "idle"
    /\ nWarnings > 0
    /\ nParsed = 0
    /\ last_data_time > SettleDelay

C4_SerialClosedAtEnd == pc = "done" => ser # "open"

\* C5: a startup failure (missing replay file, serial port that cannot be
\* opened) ends the process with a non-zero exit status before any
\* measurement is processed; status 0 is reached only after finalization.
C5_StartupFailureExitsNonZero ==
    /\ pc = "done" /\ exit_reason = "startup" => exit_status # 0 /\ nLines = 0
    /\ exit_status = 0 => pc = "done"

\* C6 as stated: a line that fails to parse emits a warning, appends no
\* point and does not end the loop, and the number of transform
\* computations equals the number of successfully parsed lines.
C6_TransformsEqualParsedLines ==
    /\ [][nWarnings' # nWarnings => points' = points /\ pc' = pc]_vars
    /\ [](nTransforms = nParsed)

\* C6 amended: a line that fails to parse emits exactly one warning,
\* appends no point and leaves the loop running; every other non-empty line
\* is parsed without a warning; the number of transform computations equals
\* the number of parsed lines that pass the range filter (the number of
\* points appended), which is exactly 2 for the rows "90,0,145",
\* "not,a,number", "0,45,200".
C6_ParseFailureAbsorbed ==
    /\ [][nLines' > nLines /\ ~WellFormed(line') =>
            /\ nWarnings' = nWarnings + 1
            /\ nParsed' = nParsed
            /\ points' = points
            /\ nTransforms' = nTransforms
            /\ pc' = "loop"]_vars
    /\ [][nLines' > nLines /\ WellFormed(line') =>
            nWarnings' = nWarnings /\ nParsed' = nParsed + 1]_vars
    /\ [](nParsed + nWarnings = nLines)
    /\ [](nTransforms = Len(points) /\ nTransforms <= nParsed)
    /\ [](CSV_FILE =>
            nTransforms = Cardinality({i \in 1..idx :
                            /\ WellFormed(csv_lines[i])
                            /\ ~OutOfRange(get_calibrated_distance_inches(
                                              Float(Split(csv_lines[i])[3])))}))
    /\ [](file = FileExample /\ exit_reason = "exhausted" =>
            nTransforms = 2 /\ nParsed = 2 /\ nWarnings = 1)

C6_Witness ==
    /\ file = FileExample
    /\ exit_reason = "exhausted"
    /\ nWarnings = 1
    /\ nTransforms = 2

\* C7 as stated: only input of exactly three comma-separated numeric fields
\* produces a point, in live mode and in replay mode alike.
C7_OnlyThreeFieldInput ==
    /\ [][~CSV_FILE /\ Len(points') > Len(points) => WellFormed(line')]_vars
    /\ [](CSV_FILE =>
            Len(points) <= Cardinality({i \in DOMAIN file : Len(RowFields(file[i])) = 3}))

\* C7 amended: the line handed to the parser yields a point only if it has
\* exactly three comma-separated numeric fields, so live input with fewer
\* or more fields never produces a point; a replay row with fewer than
\* three usable fields never produces a point, but a replay row with more
\* than three is cut to its first three parts and can produce one.
C7_ParserTakesThreeFields ==
    /\ [][Len(points') > Len(points) => WellFormed(line')]_vars
    /\ [](CSV_FILE =>
            Len(points) <= Cardinality({i \in DOMAIN file : Len(UsableFields(file[i])) >= 3}))
    /\ [](CSV_FILE /\ file = FileExtra /\ exit_reason = "exhausted" => Len(points) = 1)

C7_Witness ==
    /\ file = FileExtra
    /\ exit_reason = "exhausted"
    /\ Len(points) = 1

\* C8: a live session that receives valid lines and then nothing more
\* leaves the read loop, also when no line ever arrived; the cloud is not
\* changed by the silence and holds exactly one point per valid line.
C8_SilenceEndsTheLoop ==
    /\ (~CSV_FILE /\ pc = "loop" /\ silent) ~> (pc \in {"finally", "done"})
    /\ [][silent => points' = points]_vars
    /\ [](~CSV_FILE /\ pc # "loop" /\ nInRange = nLines => Len(points) = nLines)

C8_Witness ==
    /\ silent
    /\ exit_reason = "idle"
    /\ nLines = 1
    /\ nInRange = 1
    /\ Len(points) = 1

\* C9: a record normalises to the same line whether its text is one
\* comma-joined cell or pre-split cells.
C9_LayoutIndependent ==
    \A i \in DOMAIN file :
        file[i] # <<>> =>
            NormalizeRow(<<Join(file[i])>>) = NormalizeRow(RowFields(file[i]))

\* C10: an incremental render is requested exactly when an append makes the
\* cloud length a multiple of 10, so there have been floor(n/10) renders
\* after n appends; the step that renders is an ordinary append and changes
\* nothing else but what the axes show.
C10_RenderEveryTenth ==
    /\ [](nRenders = Len(points) \div 10)
    /\ [][nRenders' # nRenders =>
            /\ nRenders' = nRenders + 1
            /\ Len(points') = Len(points) + 1
            /\ Len(points') % 10 = 0
            /\ SubSeq(points', 1, Len(points)) = points
            /\ ax' = points'
            /\ nWarnings' = nWarnings
            /\ nParsed' = nParsed + 1
            /\ pc' = pc /\ exit_reason' = exit_reason /\ final' = final]_vars
    /\ [][nRenders' = nRenders /\ pc' # "done" => ax' = ax]_vars

C10_Witness == nRenders = 2 /\ Len(points) = 21

====
